---- MODULE Spec2Model ----
(***************************************************************************)
(* JobFinder backend: token service, auth middleware chain, role gates,    *)
(* identity store write paths and the upload pipeline.                     *)
(*                                                                         *)
(* Time is counted in ticks of 12 hours, so the token lifetime '24h' is    *)
(* two ticks.  jsonwebtoken compares whole seconds; a tick stands for the  *)
(* value of Math.floor(Date.now() / 1000) scaled by 43200.                 *)
(***************************************************************************)
EXTENDS Integers, Sequences, FiniteSets, Bags, TLC

\* ---------------------------------------------------------------- bounds
MaxNewUsers == 1
MaxTime == 3
MaxTokens == 2
MaxNewJobs == 1
MaxUploads == 1
MaxMs == 1
MaxApplies == 2

\* ------------------------------------------------------ program constants
TokenLifetime == 2
AvatarMaxSize == 5
ResumeMaxSize == 10

SeedUsers == 3
SeedJobs == 3
UserIds == 1..(SeedUsers + MaxNewUsers)
JobIds == 1..(SeedJobs + MaxNewJobs)
NoId == 0
Roles == {"jobseeker", "recruiter", "admin"}

\* ------------------------------------------------------------- passwords
\* bcrypt.hashSync / bcrypt.compareSync: the hash is not the plain text and
\* compare succeeds exactly on the plain text that was hashed.
generatePassword(password) == <<"bcrypt", password>>

comparePasswords(password, cryptPassword) == cryptPassword = <<"bcrypt", password>>

\* --------------------------------------------------------- identity store
NoUser == [exists |-> FALSE]

NoFile == <<>>

\* The schema's "lowercase: true" on email: the setter runs when a document
\* is built and when a query filter is cast.
toLowerCase(email) == IF email = "New@Example.com" THEN "new@example.com" ELSE email

\* A document as Mongoose creates it from the given fields: the schema
\* defaults fill role, isAdmin, isActive; resume and profilePicture unset.
NewUserDoc(email, passwordHash, role, isAdmin) ==
  [exists |-> TRUE, email |-> toLowerCase(email), password |-> passwordHash,
   role |-> IF role = "absent" THEN "jobseeker" ELSE role,
   isAdmin |-> isAdmin, isActive |-> TRUE,
   profilePicture |-> NoFile, resume |-> NoFile, appliedJobs |-> <<>>]

\* userSchema.pre('save'): runs on document.save() only.
preSave(doc, roleModified) ==
  IF doc.role = "admin" THEN [doc EXCEPT !.isAdmin = TRUE]
  ELSE IF roleModified /\ doc.role # "admin" THEN [doc EXCEPT !.isAdmin = FALSE]
  ELSE doc

\* ----------------------------------------------------------- token service
SECRET_KEY == "secret"

\* generateAuthToken: payload {_id, role, isAdmin, iat}; jwt.sign adds
\* exp = iat + expiresIn, iss and aud, and signs with SECRET_KEY.
generateAuthToken(id, user, clock) ==
  [wf |-> TRUE, sub |-> id, role |-> user.role, isAdmin |-> user.isAdmin,
   iat |-> clock, exp |-> clock + TokenLifetime,
   sig |-> SECRET_KEY, iss |-> "jobfinder-app", aud |-> "jobfinder-users"]

NoClaims == [valid |-> FALSE]

\* A verify that still accepts the token in the second of its expiry.
jwtVerifyExpiresLate(t, clock, checkIssAud) ==
  IF ~t.wf THEN NoClaims
  ELSE IF t.sig # SECRET_KEY THEN NoClaims
  ELSE IF clock > t.exp THEN NoClaims
  ELSE IF checkIssAud /\ t.aud # "jobfinder-users" THEN NoClaims
  ELSE IF checkIssAud /\ t.iss # "jobfinder-app" THEN NoClaims
  ELSE [valid |-> TRUE, sub |-> t.sub, role |-> t.role, isAdmin |-> t.isAdmin,
        iat |-> t.iat, exp |-> t.exp]

\* jwt.verify of jsonwebtoken: structure, signature, audience, issuer, then
\* expiry "clockTimestamp >= payload.exp" raises TokenExpiredError.
jwtVerify(t, clock, checkIssAud) ==
  IF ~t.wf THEN NoClaims
  ELSE IF t.sig # SECRET_KEY THEN NoClaims
  ELSE IF clock >= t.exp THEN NoClaims
  ELSE IF checkIssAud /\ t.aud # "jobfinder-users" THEN NoClaims
  ELSE IF checkIssAud /\ t.iss # "jobfinder-app" THEN NoClaims
  ELSE [valid |-> TRUE, sub |-> t.sub, role |-> t.role, isAdmin |-> t.isAdmin,
        iat |-> t.iat, exp |-> t.exp]

\* verifyToken: payload, or null on any verification error.
verifyToken(t, clock) == jwtVerify(t, clock, TRUE)

\* ------------------------------------------------------------ request model
NoTok == [absent |-> TRUE]

MalformedTok == [wf |-> FALSE]

\* kind "none": no auth header; "xauth": x-auth-token: tok;
\* "bearer": Authorization: Bearer tok; "raw": Authorization: tok;
\* "basic": Authorization: Basic tok.
HeaderKinds == {"none", "xauth", "bearer", "raw", "basic"}

\* req.header("x-auth-token") || req.header("Authorization")?.replace("Bearer ", "")
\* replace leaves a value without the prefix as it is: a bare token stays
\* the token, and "Basic tok" is not a JWT.
ExtractToken(h) ==
  CASE h.kind = "none" -> NoTok
    [] h.kind = "xauth" -> h.tok
    [] h.kind = "bearer" -> h.tok
    [] h.kind = "raw" -> h.tok
    [] h.kind = "basic" -> MalformedTok

NoReqUser == [id |-> NoId, role |-> "none", isAdmin |-> FALSE]

\* auth of auth/authService.js: the middleware on every protected route.
\* Result: status 0 and next = TRUE when admitted, with req.user attached.
auth(h, clock) ==
  LET tokenFromClient == ExtractToken(h) IN
  IF tokenFromClient = NoTok
    THEN [status |-> 401, next |-> FALSE, user |-> NoReqUser]
  ELSE LET userInfo == verifyToken(tokenFromClient, clock) IN
    IF ~userInfo.valid
      THEN [status |-> 401, next |-> FALSE, user |-> NoReqUser]
    ELSE IF userInfo.exp < clock
      THEN [status |-> 401, next |-> FALSE, user |-> NoReqUser]
    ELSE IF userInfo.sub = NoId \/ userInfo.role = "none"
      THEN [status |-> 401, next |-> FALSE, user |-> NoReqUser]
    ELSE [status |-> 0, next |-> TRUE,
          user |-> [id |-> userInfo.sub, role |-> userInfo.role,
                    isAdmin |-> userInfo.isAdmin]]

\* auth of the identity-loading variant (auth/auth.js): jwt.verify without
\* issuer/audience options, then User.findById and the isActive check.
authLoad(h, clock, db) ==
  LET token == ExtractToken(h) IN
  IF token = NoTok
    THEN [status |-> 401, next |-> FALSE, user |-> NoReqUser]
  ELSE LET decoded == jwtVerify(token, clock, FALSE) IN
    IF ~decoded.valid
      THEN [status |-> 401, next |-> FALSE, user |-> NoReqUser]
    ELSE IF decoded.sub \notin DOMAIN db \/ ~db[decoded.sub].exists
      THEN [status |-> 401, next |-> FALSE, user |-> NoReqUser]
    ELSE IF ~db[decoded.sub].isActive
      THEN [status |-> 401, next |-> FALSE, user |-> NoReqUser]
    ELSE [status |-> 0, next |-> TRUE,
          user |-> [id |-> decoded.sub, role |-> db[decoded.sub].role,
                    isAdmin |-> db[decoded.sub].isAdmin
                                \/ db[decoded.sub].role = "admin"]]

\* -------------------------------------------------------------- role gates
\* Each gate yields 0 (next() is called) or the status of the rejection.
validateRecruiter(u) == IF u.role # "recruiter" THEN 403 ELSE 0

requireRecruiter(u) == IF u.role # "recruiter" /\ ~u.isAdmin THEN 403 ELSE 0

requireJobSeeker(u) == IF u.role # "jobseeker" /\ ~u.isAdmin THEN 403 ELSE 0

requireAdmin(u) == IF ~u.isAdmin THEN 403 ELSE 0

\* A gate that only asks for an authenticated identity.
requireAdminWithLoggingAnyUser(u) == IF u.id = NoId THEN 403 ELSE 0

requireAdminWithLogging(u) == IF ~u.isAdmin THEN 403 ELSE 0

GateNames == {"validateRecruiter", "requireRecruiter", "requireJobSeeker",
              "requireAdmin", "requireAdminWithLogging"}

\* The gate named g; "" names a route that has the auth middleware only.
Gate(g, u) ==
  CASE g = "" -> 0
    [] g = "validateRecruiter" -> validateRecruiter(u)
    [] g = "requireRecruiter" -> requireRecruiter(u)
    [] g = "requireJobSeeker" -> requireJobSeeker(u)
    [] g = "requireAdmin" -> requireAdmin(u)
    [] g = "requireAdminWithLogging" -> requireAdminWithLogging(u)

\* ------------------------------------------------------------------- state
VARIABLES
  started,   \* startServer has connected and seeded; the server listens
  users,     \* the User collection, by _id
  nextId,    \* the next fresh ObjectId of a user
  jobs,      \* the Job collection, by _id
  tokens,    \* the tokens the token service has issued so far
  now,       \* the clock, in ticks
  ms,        \* Date.now() as the upload file names see it
  files,     \* the names of the files under uploads/profiles and uploads/resumes
  uploads,   \* the upload requests in flight
  sweep,     \* the run of cleanupOrphanedFiles in progress, if any
  applying,  \* the apply requests in flight
  resp       \* the request answered by the last step and its response

vars == <<started, users, nextId, jobs, tokens, now, ms, files, uploads, sweep,
          applying, resp>>

NoJob == [exists |-> FALSE]

NoResp == [op |-> "none", kind |-> "none", tok |-> NoTok, status |-> 0,
           user |-> NoId, handled |-> FALSE, arg |-> <<>>]

Respond(op, h, status, user, handled, arg) ==
  resp' = [op |-> op, kind |-> h.kind, tok |-> h.tok, status |-> status,
           user |-> user, handled |-> handled, arg |-> arg]

\* No run of cleanupOrphanedFiles is in progress.
NoSweep == [pc |-> "idle", userFiles |-> {}]

NoHeader == [kind |-> "none", tok |-> NoTok]

\* What a client can put in a header: a token the service issued, such a
\* token with its signature, issuer or audience changed, or garbage.
Presentable ==
  tokens \cup {[t EXCEPT !.sig = "forged"] : t \in tokens}
         \cup {[t EXCEPT !.iss = "other-app"] : t \in tokens}
         \cup {[t EXCEPT !.aud = "other-users"] : t \in tokens}
         \cup {MalformedTok}

Headers ==
  {NoHeader} \cup {[kind |-> k, tok |-> t] : k \in {"xauth", "bearer", "raw"},
                                            t \in Presentable}
             \cup {[kind |-> "basic", tok |-> t] : t \in tokens}

\* The headers of clients that send a token they were given, or none.
IssuedHeaders == {NoHeader} \cup {[kind |-> "bearer", tok |-> t] : t \in tokens}

Init ==
  /\ started = FALSE
  /\ users = [u \in UserIds |-> NoUser]
  /\ nextId = 1
  /\ jobs = [j \in JobIds |-> NoJob]
  /\ tokens = {}
  /\ now = 0
  /\ ms = 0
  /\ files = {}
  /\ uploads = EmptyBag
  /\ sweep = NoSweep
  /\ applying = EmptyBag
  /\ resp = NoResp

\* ------------------------------------------------------------------ startup
\* seedData: User.insertMany and Job.insertMany on an empty database.
\* insertMany applies the schema defaults and does not run pre('save').
seedData ==
  /\ ~started
  /\ started' = TRUE
  /\ users' = [u \in UserIds |->
       CASE u = 1 -> NewUserDoc("admin@jobfinder.com",
                                generatePassword("Admin123"), "recruiter", TRUE)
         [] u = 2 -> NewUserDoc("recruiter@example.com",
                                generatePassword("Recruiter123"), "recruiter", FALSE)
         [] u = 3 -> NewUserDoc("jobseeker@example.com",
                                generatePassword("Seeker123"), "jobseeker", FALSE)
         [] OTHER -> NoUser]
  /\ nextId' = SeedUsers + 1
  /\ jobs' = [j \in JobIds |->
       CASE j = 1 -> [exists |-> TRUE, postedBy |-> 2, applicants |-> <<>>,
                    title |-> "old"]
         [] j = 2 -> [exists |-> TRUE, postedBy |-> 2, applicants |-> <<>>,
                    title |-> "old"]
         [] j = 3 -> [exists |-> TRUE, postedBy |-> 1, applicants |-> <<>>,
                    title |-> "old"]
         [] OTHER -> NoJob]
  /\ resp' = NoResp
  /\ UNCHANGED <<tokens, now, ms, files, uploads, sweep, applying>>

Tick ==
  /\ started
  /\ now < MaxTime
  /\ now' = now + 1
  /\ resp' = NoResp
  /\ UNCHANGED <<started, users, nextId, jobs, tokens, ms, files, uploads, sweep, applying>>

TickMs ==
  /\ started
  /\ ms < MaxMs
  /\ ms' = ms + 1
  /\ resp' = NoResp
  /\ UNCHANGED <<started, users, nextId, jobs, tokens, now, files, uploads, sweep, applying>>

\* ------------------------------------------------------- register and login
Emails == {"admin@jobfinder.com", "recruiter@example.com",
           "jobseeker@example.com", "new@example.com", "New@Example.com"}

Passwords == {"Admin123", "Recruiter123", "Seeker123", "Abc123", "weak"}

\* registerSchema: role is one of jobseeker/recruiter when given, the password
\* matches the pattern, and a key outside the schema (isAdmin) is an error.
validateRegistration(body) ==
  IF body.password = "weak" THEN "password"
  ELSE IF body.role \notin {"absent", "jobseeker", "recruiter"} THEN "role"
  ELSE IF body.isAdmin # "absent" THEN "isAdmin is not allowed"
  ELSE ""

RegisterBodies ==
  [email : {"admin@jobfinder.com", "New@Example.com"},
   password : {"Abc123", "Seeker123", "weak"},
   role : {"absent", "recruiter", "admin"}, isAdmin : {"absent", "T"}]

\* A lookup that compares the email as typed, without the schema's setter.
findByEmailAsGiven(coll, email) ==
  {u \in DOMAIN coll : coll[u].exists /\ coll[u].email = email}

\* User.findOne({ email })
findByEmail(coll, email) ==
  {u \in DOMAIN coll : coll[u].exists /\ coll[u].email = toLowerCase(email)}

\* registerUser: result of the data-access function on collection coll.
registerUser(coll, id, userData) ==
  IF findByEmail(coll, userData.email) # {}
    THEN [status |-> 409, coll |-> coll]
  ELSE LET doc == NewUserDoc(userData.email, generatePassword(userData.password),
                             userData.role, FALSE)
       IN [status |-> 201,
           coll |-> [u \in DOMAIN coll |->
                       IF u = id THEN preSave(doc, userData.role # "absent")
                       ELSE coll[u]]]

\* POST /users
Register(body) ==
  /\ started
  /\ IF validateRegistration(body) # ""
       THEN /\ Respond("register", NoHeader, 400, NoId, FALSE, body)
            /\ UNCHANGED <<users, nextId>>
       ELSE LET r == registerUser(users, nextId, body) IN
            IF r.status = 201
              THEN /\ nextId \in UserIds
                   /\ users' = r.coll
                   /\ nextId' = nextId + 1
                   /\ Respond("register", NoHeader, 201, nextId, TRUE, body)
              ELSE /\ Respond("register", NoHeader, r.status, NoId, TRUE, body)
                   /\ UNCHANGED <<users, nextId>>
  /\ UNCHANGED <<started, jobs, tokens, now, ms, files, uploads, sweep, applying>>

\* loginUser: find by email, compare the password, issue the token.  The
\* account's isActive flag is not consulted.
loginUser(coll, email, password, clock) ==
  LET found == findByEmail(coll, email) IN
  IF found = {} THEN [status |-> 401, token |-> NoTok, id |-> NoId]
  ELSE LET id == CHOOSE u \in found : TRUE IN
    IF ~comparePasswords(password, coll[id].password)
      THEN [status |-> 401, token |-> NoTok, id |-> NoId]
    ELSE [status |-> 200, token |-> generateAuthToken(id, coll[id], clock),
          id |-> id]

\* POST /users/login
Login(email, password) ==
  /\ started
  /\ LET r == loginUser(users, email, password, now) IN
     IF r.status = 200
       THEN /\ r.token \in tokens \/ Cardinality(tokens) < MaxTokens
            /\ tokens' = tokens \cup {r.token}
            /\ resp' = [op |-> "login", kind |-> "none", tok |-> r.token,
                        status |-> 200, user |-> r.id, handled |-> TRUE,
                        arg |-> <<email, password>>]
       ELSE /\ tokens' = tokens
            /\ resp' = [op |-> "login", kind |-> "none", tok |-> NoTok,
                        status |-> r.status, user |-> NoId, handled |-> TRUE,
                        arg |-> <<email, password>>]
  /\ UNCHANGED <<started, users, nextId, jobs, now, ms, files, uploads, sweep, applying>>

\* ---------------------------------------------------------- gated routes
\* A route "auth, gate, handler": the request ends at the first middleware
\* that does not call next().  Gate "" stands for a route with auth only.
Rejected(op, h, g) ==
  LET a == auth(h, now) IN
  \/ /\ ~a.next
     /\ Respond(op, h, a.status, a.user.id, FALSE, <<g>>)
  \/ /\ a.next
     /\ Gate(g, a.user) # 0
     /\ Respond(op, h, Gate(g, a.user), a.user.id, FALSE, <<g>>)

Admitted(h, g) ==
  LET a == auth(h, now) IN a.next /\ Gate(g, a.user) = 0

ReqUser(h) == auth(h, now).user

\* GET routes behind a gate (my-listings, admin/users, ...): read only.
GatedRead(h, g) ==
  /\ started
  /\ \/ Rejected("read", h, g)
     \/ /\ Admitted(h, g)
        /\ Respond("read", h, 200, ReqUser(h).id, TRUE, <<g>>)
  /\ UNCHANGED <<started, users, nextId, jobs, tokens, now, ms, files, uploads, sweep, applying>>

FreeJobIds == {j \in JobIds : \A k \in JobIds : k >= j => ~jobs[k].exists}

\* POST /jobs: auth, validateRecruiter, validateJob, createJob.
CreateJob(h, bodyOk) ==
  /\ started
  /\ \/ /\ Rejected("createJob", h, "validateRecruiter")
        /\ jobs' = jobs
     \/ /\ Admitted(h, "validateRecruiter")
        /\ IF ~bodyOk
             THEN /\ Respond("createJob", h, 400, ReqUser(h).id, TRUE,
                             <<"validateRecruiter">>)
                  /\ jobs' = jobs
             ELSE \E j \in FreeJobIds :
                  /\ \A k \in FreeJobIds : j <= k
                  /\ jobs' = [jobs EXCEPT ![j] =
                       [exists |-> TRUE, postedBy |-> ReqUser(h).id,
                        applicants |-> <<>>, title |-> "old"]]
                  /\ Respond("createJob", h, 201, ReqUser(h).id, TRUE,
                             <<"validateRecruiter">>)
  /\ UNCHANGED <<started, users, nextId, tokens, now, ms, files, uploads, sweep, applying>>

\* ------------------------------------------------------------- admin routes
\* updateUserRole: findById, user.role = newRole, user.save().
updateUserRole(coll, userId, newRole) ==
  IF ~coll[userId].exists THEN [status |-> 404, coll |-> coll]
  ELSE [status |-> 200,
        coll |-> [coll EXCEPT ![userId] =
                    preSave([@ EXCEPT !.role = newRole], @.role # newRole)]]

\* toggleUserStatus: findById, flip isActive, user.save().
toggleUserStatus(coll, userId) ==
  IF ~coll[userId].exists THEN [status |-> 404, coll |-> coll]
  ELSE [status |-> 200,
        coll |-> [coll EXCEPT ![userId] =
                    preSave([@ EXCEPT !.isActive = ~coll[userId].isActive], FALSE)]]

RemoveAll(seq, x) == SelectSeq(seq, LAMBDA y : y # x)

\* deleteUser: delete the jobs a recruiter posted, pull the user from every
\* applicants list, delete the user document.
deleteUser(coll, jcoll, userId) ==
  IF ~coll[userId].exists
    THEN [status |-> 404, coll |-> coll, jcoll |-> jcoll]
  ELSE
    LET j1 == IF coll[userId].role = "recruiter"
                THEN [j \in DOMAIN jcoll |->
                        IF jcoll[j].exists /\ jcoll[j].postedBy = userId
                          THEN NoJob ELSE jcoll[j]]
                ELSE jcoll
        j2 == [j \in DOMAIN j1 |->
                 IF j1[j].exists
                   THEN [j1[j] EXCEPT !.applicants = RemoveAll(@, userId)]
                   ELSE j1[j]]
    IN [status |-> 200, coll |-> [coll EXCEPT ![userId] = NoUser], jcoll |-> j2]

\* An id as a request carries it, in the path or in the body: the 24 hex
\* digits of an ObjectId, whose letters a client may write in upper case.
\* The ids in a token and in a stored document are written in lower case.
IdParams == [id : UserIds, upper : BOOLEAN]

\* ObjectId.toString(), and the _id of the token payload.
toString(id) == [id |-> id, upper |-> FALSE]

\* The cast of a string to ObjectId in findById and in query filters: the
\* hex digits are read without regard to case.
castObjectId(userId) == userId.id

\* PUT /admin/users/:id/role
AdminSetRole(h, userId, role) ==
  /\ started
  /\ \/ /\ Rejected("setRole", h, "requireAdminWithLogging")
        /\ users' = users
     \/ /\ Admitted(h, "requireAdminWithLogging")
        /\ LET arg == <<"requireAdminWithLogging", castObjectId(userId), role,
                        userId.upper>>
           IN IF userId = toString(ReqUser(h).id) /\ role # "admin"
                THEN /\ Respond("setRole", h, 400, ReqUser(h).id, TRUE, arg)
                     /\ users' = users
              ELSE IF role \notin Roles
                THEN /\ Respond("setRole", h, 400, ReqUser(h).id, TRUE, arg)
                     /\ users' = users
              ELSE LET r == updateUserRole(users, castObjectId(userId), role) IN
                     /\ users' = r.coll
                     /\ Respond("setRole", h, r.status, ReqUser(h).id, TRUE, arg)
  /\ UNCHANGED <<started, nextId, jobs, tokens, now, ms, files, uploads, sweep, applying>>

\* PUT /admin/users/:id/status
AdminToggleStatus(h, userId) ==
  /\ started
  /\ \/ /\ Rejected("toggleStatus", h, "requireAdminWithLogging")
        /\ users' = users
     \/ /\ Admitted(h, "requireAdminWithLogging")
        /\ LET arg == <<"requireAdminWithLogging", castObjectId(userId),
                        userId.upper>>
           IN IF userId = toString(ReqUser(h).id)
                THEN /\ Respond("toggleStatus", h, 400, ReqUser(h).id, TRUE, arg)
                     /\ users' = users
              ELSE LET r == toggleUserStatus(users, castObjectId(userId)) IN
                     /\ users' = r.coll
                     /\ Respond("toggleStatus", h, r.status, ReqUser(h).id, TRUE, arg)
  /\ UNCHANGED <<started, nextId, jobs, tokens, now, ms, files, uploads, sweep, applying>>

\* DELETE /admin/users/:id
AdminDeleteUser(h, userId) ==
  /\ started
  /\ \/ /\ Rejected("deleteUser", h, "requireAdminWithLogging")
        /\ UNCHANGED <<users, jobs>>
     \/ /\ Admitted(h, "requireAdminWithLogging")
        /\ LET arg == <<"requireAdminWithLogging", castObjectId(userId),
                        userId.upper>>
           IN IF userId = toString(ReqUser(h).id)
                THEN /\ Respond("deleteUser", h, 400, ReqUser(h).id, TRUE, arg)
                     /\ UNCHANGED <<users, jobs>>
              ELSE LET r == deleteUser(users, jobs, castObjectId(userId)) IN
                     /\ users' = r.coll
                     /\ jobs' = r.jcoll
                     /\ Respond("deleteUser", h, r.status, ReqUser(h).id, TRUE, arg)
  /\ UNCHANGED <<started, nextId, tokens, now, ms, files, uploads, sweep, applying>>

\* bulkDeleteUsers: 400 "Cannot delete admin users" when one of the listed
\* users has isAdmin; else the jobs of the listed recruiters are deleted, the
\* listed users are pulled from every applicants list and deleted.
bulkDeleteUsers(coll, jcoll, userIds) ==
  LET listed == {u \in DOMAIN coll : u \in userIds /\ coll[u].exists}
      j1 == [j \in DOMAIN jcoll |->
               IF /\ jcoll[j].exists
                  /\ jcoll[j].postedBy \in listed
                  /\ coll[jcoll[j].postedBy].role = "recruiter"
                 THEN NoJob ELSE jcoll[j]]
      j2 == [j \in DOMAIN j1 |->
               IF j1[j].exists
                 THEN [j1[j] EXCEPT !.applicants =
                         SelectSeq(@, LAMBDA y : y \notin userIds)]
                 ELSE j1[j]]
  IN IF \E u \in listed : coll[u].isAdmin
       THEN [status |-> 400, coll |-> coll, jcoll |-> jcoll]
     ELSE [status |-> 200,
           coll |-> [u \in DOMAIN coll |-> IF u \in listed THEN NoUser ELSE coll[u]],
           jcoll |-> j2]

\* The DELETE routes of the admin router on users, in the order of their
\* definition; Express hands a request to the first route whose path
\* pattern matches, and neither handler calls next().
AdminUserDeleteRoutes == <<"/users/:id", "/users/bulk">>

\* The path pattern matches the request path: ":id" matches any segment.
matchesPath(pattern, path) ==
  \/ pattern = path
  \/ pattern = "/users/:id" /\ path \in {"/users/bulk", "/users/<id>"}

\* The route that handles the request path.
routeOf(path) ==
  LET R == AdminUserDeleteRoutes
      first == CHOOSE i \in DOMAIN R :
                 /\ matchesPath(R[i], path)
                 /\ \A k \in DOMAIN R : matchesPath(R[k], path) => i <= k
  IN R[first]

\* DELETE /admin/users/bulk with the body {userIds}.  The handler of
\* '/users/bulk' refuses an empty list and a list that includes the caller's
\* own id (400), then calls bulkDeleteUsers.  The handler of '/users/:id'
\* gets the request with req.params.id = "bulk", which is not the caller's
\* id and fails the 24 hex digits check (400).
AdminBulkDeleteUsers(h, userIds) ==
  /\ started
  /\ \/ /\ Rejected("bulkDeleteUsers", h, "requireAdminWithLogging")
        /\ UNCHANGED <<users, jobs>>
     \/ /\ Admitted(h, "requireAdminWithLogging")
        /\ LET arg == <<"requireAdminWithLogging", routeOf("/users/bulk"), userIds>>
           IN IF routeOf("/users/bulk") = "/users/:id"
                THEN /\ Respond("bulkDeleteUsers", h, 400, ReqUser(h).id, TRUE, arg)
                     /\ UNCHANGED <<users, jobs>>
              ELSE IF userIds = {} \/ toString(ReqUser(h).id) \in userIds
                THEN /\ Respond("bulkDeleteUsers", h, 400, ReqUser(h).id, TRUE, arg)
                     /\ UNCHANGED <<users, jobs>>
              ELSE LET r == bulkDeleteUsers(users, jobs,
                                            {castObjectId(u) : u \in userIds}) IN
                     /\ users' = r.coll
                     /\ jobs' = r.jcoll
                     /\ Respond("bulkDeleteUsers", h, r.status, ReqUser(h).id, TRUE, arg)
  /\ UNCHANGED <<started, nextId, tokens, now, ms, files, uploads, sweep, applying>>

\* ------------------------------------------------------------------ logout
\* A logout that deactivates the account of the caller.
LogoutStoreDeactivates(coll, userId) ==
  IF coll[userId].exists THEN [coll EXCEPT ![userId].isActive = FALSE] ELSE coll

\* What the logout handler writes to the identity store: it logs the call
\* and answers, and writes nothing.
LogoutStore(coll, userId) == coll

\* The token of the logout that the step before answered 200, if it
\* answered one.
LastLogout ==
  IF resp.op = "logout" /\ resp.status = 200 THEN resp.tok ELSE NoTok

\* POST /users/logout: auth, then 200 "Logout successful".
Logout(h) ==
  /\ started
  /\ LET a == auth(h, now)
     IN IF ~a.next
          THEN /\ Respond("logout", h, a.status, a.user.id, FALSE,
                          [after |-> LastLogout])
               /\ users' = users
          ELSE /\ Respond("logout", h, 200, a.user.id, TRUE,
                          [after |-> LastLogout])
               /\ users' = LogoutStore(users, a.user.id)
  /\ UNCHANGED <<started, nextId, jobs, tokens, now, ms, files, uploads, sweep, applying>>

\* ----------------------------------------------------------- profile update
\* The fields of a PUT body that the identity store acts on.
UpdateBodies == [role : {"absent"} \cup Roles, isAdmin : {"absent", "T", "F"}]

\* User.findByIdAndUpdate(userId, userData, {new, runValidators}): sets the
\* given fields; a query update does not run pre('save').
findByIdAndUpdate(doc, userData) ==
  LET d1 == IF userData.role # "absent" THEN [doc EXCEPT !.role = userData.role]
            ELSE doc
  IN IF userData.isAdmin # "absent"
       THEN [d1 EXCEPT !.isAdmin = (userData.isAdmin = "T")] ELSE d1

\* updateUser: 404 when the id matches no document.
updateUser(coll, userId, userData) ==
  IF ~coll[userId].exists THEN [status |-> 404, coll |-> coll]
  ELSE [status |-> 200,
        coll |-> [coll EXCEPT ![userId] = findByIdAndUpdate(@, userData)]]

\* PUT /users/:id of users/routes/userRoutes.js: self or admin, then
\* updateUser(id, req.body).
PutUser(h, id, body) ==
  /\ started
  /\ \/ /\ Rejected("putUser", h, "")
        /\ users' = users
     \/ /\ Admitted(h, "")
        /\ IF id # ReqUser(h).id /\ ~ReqUser(h).isAdmin
             THEN /\ Respond("putUser", h, 403, ReqUser(h).id, TRUE, <<id>>)
                  /\ users' = users
             ELSE LET r == updateUser(users, id, body) IN
                  /\ users' = r.coll
                  /\ Respond("putUser", h, r.status, ReqUser(h).id, TRUE, <<id>>)
  /\ UNCHANGED <<started, nextId, jobs, tokens, now, ms, files, uploads, sweep, applying>>

\* "Don't allow role changes unless admin": delete req.body.role.
StripRole(u, body) ==
  IF body.role # "absent" /\ ~u.isAdmin THEN [body EXCEPT !.role = "absent"]
  ELSE body

\* PUT /users/:id of the later revision: role stripped for non-admins, and
\* an admin may not drop the own admin role.
PutUserFiltered(h, id, body) ==
  /\ started
  /\ \/ /\ Rejected("putUserFiltered", h, "")
        /\ users' = users
     \/ /\ Admitted(h, "")
        /\ LET u == ReqUser(h)
               b == StripRole(u, body)
           IN IF id # u.id /\ ~u.isAdmin
                THEN /\ Respond("putUserFiltered", h, 403, u.id, TRUE, <<id>>)
                     /\ users' = users
              ELSE IF b.role # "absent" /\ u.isAdmin /\ id = u.id /\ b.role # "admin"
                THEN /\ Respond("putUserFiltered", h, 400, u.id, TRUE, <<id>>)
                     /\ users' = users
              ELSE LET r == updateUser(users, id, b) IN
                     /\ users' = r.coll
                     /\ Respond("putUserFiltered", h, r.status, u.id, TRUE, <<id>>)
  /\ UNCHANGED <<started, nextId, jobs, tokens, now, ms, files, uploads, sweep, applying>>

\* PUT /users/profile/me
PutProfileMe(h, body) ==
  /\ started
  /\ \/ /\ Rejected("putProfileMe", h, "")
        /\ users' = users
     \/ /\ Admitted(h, "")
        /\ LET u == ReqUser(h)
               r == updateUser(users, u.id, StripRole(u, body))
           IN /\ users' = r.coll
              /\ Respond("putProfileMe", h, r.status, u.id, TRUE, <<u.id>>)
  /\ UNCHANGED <<started, nextId, jobs, tokens, now, ms, files, uploads, sweep, applying>>

\* ----------------------------------------------------------- upload pipeline
Purposes == {"profilePicture", "resume"}

Mimes == {"image/png", "image/bmp", "application/pdf"}

\* File sizes in MiB.
Sizes == {1, AvatarMaxSize + 1, ResumeMaxSize + 1}

OriginalNames == {"a.png", "a.exe"}

FileInputs ==
  [fieldname : Purposes, mimetype : Mimes, size : Sizes,
   originalname : OriginalNames]

\* path.extname(file.originalname)
extname(name) ==
  CASE name = "a.png" -> ".png"
    [] name = "a.exe" -> ".exe"
    [] name = "a.PNG" -> ".PNG"
    [] name = "a.pdf" -> ".pdf"
    [] name = "photo.PNG" -> ".PNG"
    [] name = "stray.png" -> ".png"
    [] name = "._photo.png" -> ".png"
    [] name = "cv.pdf" -> ".pdf"
    [] name = "scans.pdf" -> ".pdf"
    [] name = "readme.txt" -> ".txt"

\* The lower-case form of an extension, which a match with the i flag
\* compares.
extLower(ext) == IF ext = ".PNG" THEN ".png" ELSE ext

startsWithImage(mimetype) == mimetype \in {"image/png", "image/bmp"}

\* fileFilter of middlewares/uploadMiddleware.js: "" accepts the file.
fileFilter(file) ==
  IF file.fieldname = "profilePicture"
    THEN IF startsWithImage(file.mimetype)
           THEN IF file.mimetype \in {"image/jpeg", "image/jpg", "image/png",
                                     "image/gif", "image/webp"}
                  THEN ""
                  ELSE "Only JPEG, PNG, GIF, and WebP images are allowed"
           ELSE "Only image files are allowed for profile picture"
  ELSE IF file.fieldname = "resume"
    THEN IF file.mimetype \in {"application/pdf", "application/msword",
           "application/vnd.openxmlformats-officedocument.wordprocessingml.document"}
           THEN ""
           ELSE "Only PDF and Word documents are allowed for resume"
  ELSE "Unknown fieldname"

\* limits.fileSize of uploadProfilePicture and uploadResume.
fileSizeLimit(type) == IF type = "profilePicture" THEN AvatarMaxSize ELSE ResumeMaxSize

\* storage.filename: `${fieldname}-${userId}-${timestamp}${ext}` in the
\* directory of the fieldname.
filename(userId, file, timestamp) ==
  <<file.fieldname, userId, timestamp, extname(file.originalname)>>

\* validateFile: the set of error messages.  The file name is matched, with
\* the i flag, against one pattern for both types, which ends in one of the
\* extensions of either type.
validateFile(file, type) ==
  (IF file.size > fileSizeLimit(type) THEN {"File too large"} ELSE {})
  \cup (IF type = "profilePicture"
          THEN IF file.mimetype \in {"image/jpeg", "image/jpg", "image/png",
                                    "image/gif", "image/webp"}
                 THEN {} ELSE {"Invalid file type"}
          ELSE IF file.mimetype \in {"application/pdf", "application/msword",
                 "application/vnd.openxmlformats-officedocument.wordprocessingml.document"}
                 THEN {} ELSE {"Invalid file type"})
  \cup (IF extLower(extname(file.originalname)) \in
             {".jpg", ".jpeg", ".png", ".gif", ".webp", ".pdf", ".doc", ".docx"}
          THEN {} ELSE {"Invalid filename"})

PathOf(doc, type) == IF type = "profilePicture" THEN doc.profilePicture ELSE doc.resume

\* An update that leaves a path that is already set.
SetPathOnce(doc, type, path) ==
  IF type = "profilePicture"
    THEN IF doc.profilePicture # NoFile /\ path # NoFile THEN doc
         ELSE [doc EXCEPT !.profilePicture = path]
  ELSE IF doc.resume # NoFile /\ path # NoFile THEN doc
       ELSE [doc EXCEPT !.resume = path]

SetPath(doc, type, path) ==
  IF type = "profilePicture" THEN [doc EXCEPT !.profilePicture = path]
  ELSE [doc EXCEPT !.resume = path]

\* An upload middleware that leaves the cut-off file of an oversize upload.
multerSingleKeepsPartial(type, file, name, fs) ==
  IF file.fieldname # type THEN [code |-> "LIMIT_UNEXPECTED_FILE", fs |-> fs]
  ELSE IF fileFilter(file) # "" THEN [code |-> "fileFilter", fs |-> fs]
  ELSE IF file.size > fileSizeLimit(type)
    THEN [code |-> "LIMIT_FILE_SIZE", fs |-> fs \cup {name}]
  ELSE [code |-> "", fs |-> fs \cup {name}]

\* upload.single(type) of multer with the storage, fileFilter and limits of
\* middlewares/uploadMiddleware.js, on the storage fs: the error code ("" for
\* none) and the storage it leaves.  A field other than the expected one and
\* a file the filter refuses are not written; a file over the size limit is
\* cut off and multer removes what was written.
multerSingle(type, file, name, fs) ==
  IF file.fieldname # type THEN [code |-> "LIMIT_UNEXPECTED_FILE", fs |-> fs]
  ELSE IF fileFilter(file) # "" THEN [code |-> "fileFilter", fs |-> fs]
  ELSE IF file.size > fileSizeLimit(type)
    THEN [code |-> "LIMIT_FILE_SIZE", fs |-> fs \ {name}]
  ELSE [code |-> "", fs |-> fs \cup {name}]

\* The answer to an upload request u: reason names the step that ended it.
UploadResp(status, u, reason) ==
  resp' = [op |-> "upload", kind |-> "bearer", tok |-> NoTok, status |-> status,
           user |-> u.user, handled |-> TRUE,
           arg |-> [type |-> u.type, file |-> u.file, old |-> u.old,
                    removed |-> u.removed, reason |-> reason,
                    raced |-> u.raced, met |-> u.met]]

\* The requests in flight, each marked as having been in flight together
\* with another request.
Raced(B) == BagOfAll(LAMBDA v : [v EXCEPT !.raced = TRUE], B)

\* The requests in flight for the user and purpose of u, each told that the
\* request u, which was in flight with them, has been answered 200.
Met(B, u) ==
  BagOfAll(LAMBDA v : IF v.user = u.user /\ v.type = u.type
                        THEN [v EXCEPT !.met = u.file] ELSE v, B)

\* POST /users/profile/picture and /profile/resume, up to the end of the
\* multer middleware: auth, then multer; its error ends the request with 400.
\* The request in flight records, beside its position, whether it has been
\* in flight together with another one (raced) and the file of a request for
\* the same path that was answered 200 meanwhile (met).
UploadStart(h, type, file) ==
  /\ started
  /\ \/ /\ Rejected("upload", h, "")
        /\ UNCHANGED <<files, uploads>>
     \/ /\ Admitted(h, "")
        /\ LET uid == ReqUser(h).id
               name == filename(uid, file, ms)
               m == multerSingle(type, file, name, files)
               u == [pc |-> "written", user |-> uid, type |-> type, file |-> name,
                     errors |-> validateFile(file, type), old |-> NoFile,
                     removed |-> FALSE, raced |-> uploads # EmptyBag,
                     met |-> NoFile]
           IN /\ files' = m.fs
              /\ IF m.code # ""
                   THEN /\ UploadResp(400, [u EXCEPT !.file = NoFile], m.code)
                        /\ uploads' = uploads
                   ELSE /\ uploads' = Raced(uploads) (+) SetToBag({u})
                        /\ resp' = NoResp
  /\ UNCHANGED <<started, users, nextId, jobs, tokens, now, ms, sweep, applying>>

\* The request u moves on as v, or ends.
Advance(u, v) == (uploads (-) SetToBag({u})) (+) SetToBag({v})

Finish(u) == uploads (-) SetToBag({u})

\* The multer callback: the validateFile(req.file, type) errors, then
\* getUserById is issued and read.
UploadValidate(u) ==
  /\ u.pc = "written"
  /\ IF u.errors # {}
       THEN /\ files' = files \ {u.file}
            /\ UploadResp(IF u.file \in files THEN 400 ELSE 500, u, "validateFile")
            /\ uploads' = Finish(u)
     ELSE IF ~users[u.user].exists
       THEN /\ files' = files \ {u.file}
            /\ UploadResp(404, u, "getUserById")
            /\ uploads' = Finish(u)
     ELSE /\ uploads' = Advance(u, [u EXCEPT !.pc = "read",
                                             !.old = PathOf(users[u.user], u.type)])
          /\ resp' = NoResp
          /\ files' = files
  /\ UNCHANGED <<started, users, nextId, jobs, tokens, now, ms, sweep, applying>>

\* After the read: delete the old file if the path is set and the file
\* exists (unlinkSync may throw, and the catch block deletes the new file),
\* then issue updateUser.
UploadReplace(u, unlinkOk) ==
  /\ u.pc = "read"
  /\ IF u.old # NoFile /\ u.old \in files
       THEN IF unlinkOk
              THEN /\ files' = files \ {u.old}
                   /\ uploads' = Advance(u, [u EXCEPT !.pc = "updating",
                                                      !.removed = TRUE])
                   /\ resp' = NoResp
              ELSE /\ files' = files \ {u.file}
                   /\ UploadResp(500, u, "unlinkSync")
                   /\ uploads' = Finish(u)
       ELSE /\ unlinkOk
            /\ files' = files
            /\ uploads' = Advance(u, [u EXCEPT !.pc = "updating"])
            /\ resp' = NoResp
  /\ UNCHANGED <<started, users, nextId, jobs, tokens, now, ms, sweep, applying>>

\* The database performs updateUser(req.user._id, {<type>: relativePath})
\* and the handler answers 200, or updateUser throws and the catch block
\* deletes the new file (createError gives a database error the status 400).
UploadDbUpdate(u, dbOk) ==
  /\ u.pc = "updating"
  /\ IF dbOk /\ users[u.user].exists
       THEN /\ users' = [users EXCEPT ![u.user] = SetPath(@, u.type, u.file)]
            /\ files' = files
            /\ UploadResp(200, u, "")
            /\ uploads' = Met(Finish(u), u)
       ELSE /\ users' = users
            /\ files' = files \ {u.file}
            /\ UploadResp(IF dbOk THEN 404 ELSE 400, u, "updateUser")
            /\ uploads' = Finish(u)
  /\ UNCHANGED <<started, nextId, jobs, tokens, now, ms, sweep, applying>>

\* ------------------------------------------------------------- file removal
\* A handler that answers 200 and leaves the path field as it was.
clearPathKept(doc, type) == doc

\* updateUser(req.user._id, {profilePicture: null}) / {resume: null}
clearPath(doc, type) == SetPath(doc, type, NoFile)

\* The DELETE answered by the step before, if that step answered one: its
\* status, identity and purpose.
LastDelete ==
  IF resp.op = "deleteFile" /\ resp.handled
    THEN <<resp.status, resp.user, resp.arg.type>> ELSE <<>>

\* DELETE /users/profile/picture and /profile/resume.  getUserById throws 404
\* for a missing document; an unset path is answered 404; the file is
\* unlinked if it exists (unlinkSync may throw: 500); updateUser sets the
\* path to null (or fails: createError gives the error the status 400) and
\* the handler answers 200.
DeleteFile(h, type, unlinkOk, dbOk) ==
  /\ started
  /\ \/ /\ Rejected("deleteFile", h, "")
        /\ UNCHANGED <<users, files>>
     \/ /\ Admitted(h, "")
        /\ LET uid == ReqUser(h).id
               old == IF users[uid].exists THEN PathOf(users[uid], type) ELSE NoFile
               onDisk == old \in files
               arg == [type |-> type, old |-> old,
                       fault |-> (onDisk /\ ~unlinkOk) \/ ~dbOk,
                       after |-> LastDelete]
           IN IF ~users[uid].exists \/ old = NoFile
                THEN /\ Respond("deleteFile", h, 404, uid, TRUE, arg)
                     /\ UNCHANGED <<users, files>>
              ELSE IF onDisk /\ ~unlinkOk
                THEN /\ Respond("deleteFile", h, 500, uid, TRUE, arg)
                     /\ UNCHANGED <<users, files>>
              ELSE /\ files' = files \ {old}
                   /\ IF dbOk
                        THEN /\ users' = [users EXCEPT ![uid] = clearPath(@, type)]
                             /\ Respond("deleteFile", h, 200, uid, TRUE, arg)
                        ELSE /\ users' = users
                             /\ Respond("deleteFile", h, 400, uid, TRUE, arg)
  /\ UNCHANGED <<started, nextId, jobs, tokens, now, ms, uploads, sweep, applying>>

\* ------------------------------------------------------------ the sweeper
\* Files that are on storage without an upload: a hidden file and a stray
\* file in uploads/profiles, a file in uploads/resumes that bears the name of
\* a profile picture, and a file in uploads itself.
ExternalFiles ==
  {<<"profilePicture", ".gitkeep">>, <<"profilePicture", "stray.png">>,
   <<"resume", "profilePicture", 3, 0, ".png">>, <<"uploads", "readme.txt">>}

\* The directory of a file: "profilePicture" is uploads/profiles and "resume"
\* is uploads/resumes.
dirOf(f) == f[1]

\* path.basename: an uploaded file's name carries its fieldname, so the name
\* stands for directory and basename alike.
basename(f) == IF Len(f) = 5 THEN Tail(f) ELSE f

\* file.startsWith('.') || startsWith('desktop.ini') || startsWith('Thumbs.db')
isHidden(f) ==
  Len(f) = 2 /\ f[2] \in {".gitkeep", "._photo.png", "desktop.ini", "Thumbs.db"}

\* Someone other than the server puts a file under uploads.
ExternalWrite(f) ==
  /\ f \notin files
  /\ files' = files \cup {f}
  /\ resp' = NoResp
  /\ UNCHANGED <<started, users, nextId, jobs, tokens, now, ms, uploads, sweep, applying>>

\* The userFiles set: the basenames of the path fields that are set.
userFilesOf(coll) ==
  {basename(coll[u].profilePicture) :
     u \in {v \in DOMAIN coll : coll[v].exists /\ coll[v].profilePicture # NoFile}}
  \cup {basename(coll[u].resume) :
     u \in {v \in DOMAIN coll : coll[v].exists /\ coll[v].resume # NoFile}}

\* The sweep run that the step before completed, if it completed one: what
\* it reported.
LastSweep ==
  IF resp.op = "sweep" /\ resp.arg.phase = "done" THEN resp.arg.report ELSE <<>>

SweepResp(phase, report, after) ==
  resp' = [op |-> "sweep", kind |-> "none", tok |-> NoTok, status |-> 0,
           user |-> NoId, handled |-> TRUE,
           arg |-> [phase |-> phase, report |-> report, after |-> after]]

\* cleanupOrphanedFiles up to the answer of User.find: the userFiles set.
\* When the query fails, the outer catch logs "File cleanup failed" and the
\* run is over.
SweepRead(dbOk) ==
  /\ started
  /\ sweep.pc = "idle"
  /\ IF dbOk
       THEN /\ sweep' = [pc |-> "listing", userFiles |-> userFilesOf(users)]
            /\ SweepResp("read", <<>>, LastSweep)
       ELSE /\ sweep' = NoSweep
            /\ SweepResp("failed", <<>>, <<>>)
  /\ UNCHANGED <<started, users, nextId, jobs, tokens, now, ms, files, uploads, applying>>

\* A listing that takes every file of the directory for an orphan.
orphansIgnoringReferences(listed, userFiles) == {f \in listed : ~isHidden(f)}

\* A listing in which no file is taken for an orphan.
orphansNone(listed, userFiles) == {}

\* The files of a listing that the loop hands to safeDeleteFile.
orphans(listed, userFiles) ==
  {f \in listed : ~isHidden(f) /\ basename(f) \notin userFiles}

\* A loop that logs a failed deletion and does not count it.
totalErrorsUncounted(orph, failed) == 0

\* totalErrors: one for every file on which safeDeleteFile did not succeed.
totalErrors(orph, failed) == Cardinality(orph \cap failed)

\* The rest of cleanupOrphanedFiles: both directories are listed (readdirSync
\* may throw, which ends the loop of that directory only), hidden files are
\* skipped, and safeDeleteFile is called on every file whose basename is not
\* in userFiles; it fails on the files in failed.  The run reports its
\* counts, recorded with whether both listings worked and whether the run
\* was alone: no request in flight, no step between its two halves.
SweepRun(listOk, failed) ==
  /\ sweep.pc = "listing"
  /\ LET listed == {f \in files : dirOf(f) \in Purposes /\ listOk[dirOf(f)]}
         gone == orphans(listed, sweep.userFiles) \ failed
         report == [deleted |-> Cardinality(gone),
                    errors |-> totalErrors(orphans(listed, sweep.userFiles), failed),
                    skipped |-> Cardinality({f \in listed : isHidden(f)}),
                    listed |-> \A d \in Purposes : listOk[d],
                    alone |-> resp.op = "sweep" /\ uploads = EmptyBag]
     IN /\ files' = files \ gone
        /\ SweepResp("done", report,
                     IF resp.op = "sweep" THEN resp.arg.after ELSE <<>>)
  /\ sweep' = NoSweep
  /\ UNCHANGED <<started, users, nextId, jobs, tokens, now, ms, uploads, applying>>

SweepSteps ==
  \/ \E dbOk \in BOOLEAN : SweepRead(dbOk)
  \/ \E listOk \in [Purposes -> BOOLEAN] :
       \E failed \in SUBSET orphans(files, sweep.userFiles) :
         SweepRun(listOk, failed)

\* ------------------------------------------------------ fixMisplacedFiles
\* What may lie directly in uploads: images, one of them with its extension
\* in upper case and one a hidden file, a document, a text file, and a
\* directory whose name ends like a document's.
RootFiles ==
  {<<"uploads", "photo.PNG">>, <<"uploads", "stray.png">>,
   <<"uploads", "._photo.png">>, <<"uploads", "cv.pdf">>,
   <<"uploads", "readme.txt">>, <<"uploads", "scans.pdf">>}

\* fs.statSync(filePath).isFile()
isFile(f) == f # <<"uploads", "scans.pdf">>

\* A choice of directory that sends documents to uploads/profiles as well.
targetDirProfilesOnly(ext) ==
  IF ext \in {".jpg", ".jpeg", ".png", ".gif", ".webp", ".pdf", ".doc", ".docx"}
    THEN "profilePicture" ELSE ""

\* targetDir: profilesDir for the image extensions, resumesDir for the
\* document extensions, null ("") for every other.
targetDir(ext) ==
  IF ext \in {".jpg", ".jpeg", ".png", ".gif", ".webp"} THEN "profilePicture"
  ELSE IF ext \in {".pdf", ".doc", ".docx"} THEN "resume"
  ELSE ""

\* path.join(targetDir, file)
newPath(f) == <<targetDir(extLower(extname(f[2]))), f[2]>>

\* fixMisplacedFiles, which has no await between its file system calls: the
\* entries of uploads are listed (readdirSync may throw, which is logged);
\* hidden entries, entries that are no regular files and entries of another
\* extension are passed over, and so is an entry whose name exists at the
\* destination; the others are renamed, which fails on the files in failed.
FixMisplacedFiles(listOk, failed) ==
  /\ started
  /\ LET listed == {f \in files : dirOf(f) = "uploads" /\ listOk}
         toMove == {f \in listed : /\ ~isHidden(f)
                                   /\ isFile(f)
                                   /\ targetDir(extLower(extname(f[2]))) # ""
                                   /\ newPath(f) \notin files}
         moved == toMove \ failed
     IN /\ files' = (files \ moved) \cup {newPath(f) : f \in moved}
        /\ resp' = [op |-> "organize", kind |-> "none", tok |-> NoTok,
                    status |-> 0, user |-> NoId, handled |-> TRUE,
                    arg |-> [totalMoved |-> Cardinality(moved),
                             totalErrors |-> Cardinality(toMove \cap failed),
                             listed |-> listOk, failed |-> failed]]
  /\ UNCHANGED <<started, users, nextId, jobs, tokens, now, ms, uploads, sweep, applying>>

\* ------------------------------------------------ applications, downloads
\* The answer to the apply request a.
ApplyResp(status, a) ==
  resp' = [op |-> "apply", kind |-> "bearer", tok |-> NoTok, status |-> status,
           user |-> a.user, handled |-> TRUE, arg |-> <<a.job>>]

\* job.applicants.includes(userId)
includes(applicants, userId) ==
  \E i \in DOMAIN applicants : applicants[i] = userId

\* POST /jobs/:id/apply up to the call of job.save(): recruiters that are no
\* admins are refused (403), then applyForJob reads the job with
\* Job.findById: 404 for a missing job, 400 "Already applied to this job" when
\* the applicants it read include the identity; else the identity is pushed
\* on the document in memory and the save is issued.
ApplyJob(h, jobId) ==
  /\ started
  /\ \/ /\ Rejected("apply", h, "")
        /\ applying' = applying
     \/ /\ Admitted(h, "")
        /\ LET u == ReqUser(h)
               status == IF u.role = "recruiter" /\ ~u.isAdmin THEN 403
                         ELSE IF ~jobs[jobId].exists THEN 404
                         ELSE IF includes(jobs[jobId].applicants, u.id) THEN 400
                         ELSE 0
           IN IF status # 0
                THEN /\ Respond("apply", h, status, u.id, TRUE, <<jobId>>)
                     /\ applying' = applying
                ELSE /\ applying' = applying (+) SetToBag({[pc |-> "saving",
                                                           user |-> u.id,
                                                           job |-> jobId]})
                     /\ resp' = NoResp
  /\ UNCHANGED <<started, users, nextId, jobs, tokens, now, ms, files, uploads, sweep>>

\* The database performs job.save(): the pushed element is sent as a $push
\* on the applicants of the stored document, whatever they are by now.  The
\* save of a document that was deleted meanwhile fails (createError gives
\* the error the status 400).  Then the update of the user is issued.
ApplySave(a) ==
  /\ a.pc = "saving"
  /\ IF jobs[a.job].exists
       THEN /\ jobs' = [jobs EXCEPT ![a.job].applicants = Append(@, a.user)]
            /\ applying' = (applying (-) SetToBag({a}))
                             (+) SetToBag({[a EXCEPT !.pc = "pushing"]})
            /\ resp' = NoResp
       ELSE /\ jobs' = jobs
            /\ applying' = applying (-) SetToBag({a})
            /\ ApplyResp(400, a)
  /\ UNCHANGED <<started, users, nextId, tokens, now, ms, files, uploads, sweep>>

\* User.findByIdAndUpdate(userId, {$push: {appliedJobs: jobId}}): no document
\* is no error; the route answers 200.
ApplyPushUser(a) ==
  /\ a.pc = "pushing"
  /\ users' = IF users[a.user].exists
                THEN [users EXCEPT ![a.user].appliedJobs = Append(@, a.job)]
                ELSE users
  /\ applying' = applying (-) SetToBag({a})
  /\ ApplyResp(200, a)
  /\ UNCHANGED <<started, nextId, jobs, tokens, now, ms, files, uploads, sweep>>

ApplySteps ==
  \/ \E a \in BagToSet(applying) : ApplySave(a)
  \/ \E a \in BagToSet(applying) : ApplyPushUser(a)

\* ------------------------------------------------- job update and deletion
\* The bodies of PUT /jobs/:id: ok tells whether validateJob accepts the
\* body; it carries a title and may carry postedBy (NoId when it does not).
JobBodies == [ok : BOOLEAN, title : {"new"}, postedBy : {NoId, 3}]

\* Job.findByIdAndUpdate(jobId, updatedData, {new: true})
jobFindByIdAndUpdate(doc, updatedData) ==
  [doc EXCEPT !.title = updatedData.title,
              !.postedBy = IF updatedData.postedBy = NoId THEN @
                           ELSE updatedData.postedBy]

\* An update that any authenticated identity may make.
updateJobByAnyone(jcoll, jobId, updatedData, userId) ==
  IF ~jcoll[jobId].exists THEN [status |-> 404, jcoll |-> jcoll]
  ELSE [status |-> 200,
        jcoll |-> [jcoll EXCEPT ![jobId] = jobFindByIdAndUpdate(@, updatedData)]]

\* updateJob: 404 for a missing job, 403 when job.postedBy.toString() is
\* not the caller's id, else the update.
updateJob(jcoll, jobId, updatedData, userId) ==
  IF ~jcoll[jobId].exists THEN [status |-> 404, jcoll |-> jcoll]
  ELSE IF jcoll[jobId].postedBy # userId THEN [status |-> 403, jcoll |-> jcoll]
  ELSE [status |-> 200,
        jcoll |-> [jcoll EXCEPT ![jobId] = jobFindByIdAndUpdate(@, updatedData)]]

\* deleteJob: 404 for a missing job, 403 when job.postedBy.toString() is
\* not the caller's id, else Job.findByIdAndDelete(jobId).
deleteJob(jcoll, jobId, userId) ==
  IF ~jcoll[jobId].exists THEN [status |-> 404, jcoll |-> jcoll]
  ELSE IF jcoll[jobId].postedBy # userId THEN [status |-> 403, jcoll |-> jcoll]
  ELSE [status |-> 200, jcoll |-> [jcoll EXCEPT ![jobId] = NoJob]]

\* PUT /jobs/:id: auth, validateJob(req.body) (400), updateJob.
UpdateJob(h, jobId, body) ==
  /\ started
  /\ \/ /\ Rejected("updateJob", h, "")
        /\ jobs' = jobs
     \/ /\ Admitted(h, "")
        /\ IF ~body.ok
             THEN /\ Respond("updateJob", h, 400, ReqUser(h).id, TRUE, <<jobId, body>>)
                  /\ jobs' = jobs
             ELSE LET r == updateJob(jobs, jobId, body, ReqUser(h).id) IN
                  /\ jobs' = r.jcoll
                  /\ Respond("updateJob", h, r.status, ReqUser(h).id, TRUE,
                             <<jobId, body>>)
  /\ UNCHANGED <<started, users, nextId, tokens, now, ms, files, uploads, sweep, applying>>

\* DELETE /jobs/:id: auth, deleteJob.
DeleteJob(h, jobId) ==
  /\ started
  /\ \/ /\ Rejected("deleteJob", h, "")
        /\ jobs' = jobs
     \/ /\ Admitted(h, "")
        /\ LET r == deleteJob(jobs, jobId, ReqUser(h).id) IN
           /\ jobs' = r.jcoll
           /\ Respond("deleteJob", h, r.status, ReqUser(h).id, TRUE, <<jobId>>)
  /\ UNCHANGED <<started, users, nextId, tokens, now, ms, files, uploads, sweep, applying>>

\* deleteJobForAdmin: 404 for a missing job; else the job is pulled from the
\* appliedJobs of every user (and from savedJobs, which no route modelled
\* here reads) and deleted.
deleteJobForAdmin(coll, jcoll, jobId) ==
  IF ~jcoll[jobId].exists
    THEN [status |-> 404, coll |-> coll, jcoll |-> jcoll]
  ELSE [status |-> 200,
        coll |-> [u \in DOMAIN coll |->
                    IF coll[u].exists
                      THEN [coll[u] EXCEPT !.appliedJobs = RemoveAll(@, jobId)]
                      ELSE coll[u]],
        jcoll |-> [jcoll EXCEPT ![jobId] = NoJob]]

\* DELETE /admin/jobs/:id: auth, requireAdmin, deleteJobForAdmin.
AdminDeleteJob(h, jobId) ==
  /\ started
  /\ \/ /\ Rejected("adminDeleteJob", h, "requireAdmin")
        /\ UNCHANGED <<users, jobs>>
     \/ /\ Admitted(h, "requireAdmin")
        /\ LET r == deleteJobForAdmin(users, jobs, jobId) IN
           /\ users' = r.coll
           /\ jobs' = r.jcoll
           /\ Respond("adminDeleteJob", h, r.status, ReqUser(h).id, TRUE,
                      <<"requireAdmin", jobId>>)
  /\ UNCHANGED <<started, nextId, tokens, now, ms, files, uploads, sweep, applying>>

\* A download that answers 200 whenever the resume path is set.
resolveResumeUnchecked(doc, fs) ==
  IF ~doc.exists \/ doc.resume = NoFile THEN 404 ELSE 200

\* The end of both download handlers: 404 when the document is missing or
\* its resume is unset, 404 when fs.existsSync(resumePath) is false, else the
\* attachment headers are set and the file is sent.
resolveResume(doc, fs) ==
  IF ~doc.exists \/ doc.resume = NoFile THEN 404
  ELSE IF doc.resume \notin fs THEN 404
  ELSE 200

\* The answer of a download of owner's resume: the attachment headers are set
\* exactly on 200.
DownloadResp(op, h, status, owner, jobId) ==
  Respond(op, h, status, auth(h, now).user.id, auth(h, now).next,
          [owner |-> owner, job |-> jobId, attachment |-> status = 200])

\* GET /users/profile/resume/download: the resume of the calling identity.
DownloadResume(h) ==
  /\ started
  /\ LET a == auth(h, now)
     IN IF ~a.next
          THEN DownloadResp("download", h, a.status, NoId, NoId)
          ELSE DownloadResp("download", h, resolveResume(users[a.user.id], files),
                            a.user.id, NoId)
  /\ UNCHANGED <<started, users, nextId, jobs, tokens, now, ms, files, uploads, sweep, applying>>

\* GET /jobs/:jobId/applicants/:applicantId/resume: auth, requireRecruiter,
\* then the job must exist (404), the caller must have posted it or be an
\* admin (403), the applicant must be on its applicants list (404).
DownloadApplicantResume(h, jobId, applicantId) ==
  /\ started
  /\ LET a == auth(h, now)
         status ==
           IF ~a.next THEN a.status
           ELSE IF requireRecruiter(a.user) # 0 THEN requireRecruiter(a.user)
           ELSE IF ~jobs[jobId].exists THEN 404
           ELSE IF jobs[jobId].postedBy # a.user.id /\ ~a.user.isAdmin THEN 403
           ELSE IF \A i \in DOMAIN jobs[jobId].applicants :
                     jobs[jobId].applicants[i] # applicantId THEN 404
           ELSE resolveResume(users[applicantId], files)
     IN DownloadResp("downloadApplicant", h, status, applicantId, jobId)
  /\ UNCHANGED <<started, users, nextId, jobs, tokens, now, ms, files, uploads, sweep, applying>>

InFlight == BagToSet(uploads)

UploadSteps ==
  \/ \E u \in InFlight : UploadValidate(u)
  \/ \E u \in InFlight, ok \in BOOLEAN : UploadReplace(u, ok)
  \/ \E u \in InFlight, ok \in BOOLEAN : UploadDbUpdate(u, ok)

Next ==
  \/ seedData
  \/ Tick
  \/ TickMs
  \/ \E body \in RegisterBodies : Register(body)
  \/ \E e \in Emails, p \in Passwords : Login(e, p)
  \/ \E h \in Headers, g \in {"requireRecruiter", "requireJobSeeker", "requireAdmin"} :
       GatedRead(h, g)
  \/ \E h \in Headers, ok \in BOOLEAN : CreateJob(h, ok)
  \/ \E h \in Headers, u \in IdParams, r \in Roles \cup {"bogus"} : AdminSetRole(h, u, r)
  \/ \E h \in Headers, u \in IdParams : AdminToggleStatus(h, u)
  \/ \E h \in Headers, u \in IdParams : AdminDeleteUser(h, u)
  \/ \E h \in Headers, ids \in SUBSET IdParams : AdminBulkDeleteUsers(h, ids)
  \/ \E h \in Headers, u \in UserIds, b \in UpdateBodies : PutUser(h, u, b)
  \/ \E h \in Headers, u \in UserIds, b \in UpdateBodies : PutUserFiltered(h, u, b)
  \/ \E h \in Headers, b \in UpdateBodies : PutProfileMe(h, b)
  \/ \E h \in Headers, t \in Purposes, f \in FileInputs :
       BagCardinality(uploads) < MaxUploads /\ UploadStart(h, t, f)
  \/ UploadSteps
  \/ \E h \in Headers, t \in Purposes, uok \in BOOLEAN, dok \in BOOLEAN :
       DeleteFile(h, t, uok, dok)
  \/ \E f \in ExternalFiles : ExternalWrite(f)
  \/ SweepSteps
  \/ \E h \in Headers, j \in JobIds :
       BagCardinality(applying) < MaxApplies /\ ApplyJob(h, j)
  \/ ApplySteps
  \/ \E h \in Headers : DownloadResume(h)
  \/ \E h \in Headers, j \in JobIds, u \in UserIds : DownloadApplicantResume(h, j, u)
  \/ \E h \in Headers : Logout(h)
  \/ \E h \in Headers, j \in JobIds, b \in JobBodies : UpdateJob(h, j, b)
  \/ \E h \in Headers, j \in JobIds : DeleteJob(h, j)
  \/ \E h \in Headers, j \in JobIds : AdminDeleteJob(h, j)
  \/ \E f \in RootFiles : ExternalWrite(f)
  \/ \E ok \in BOOLEAN, failed \in SUBSET RootFiles : FixMisplacedFiles(ok, failed)

\* ------------------------------------------------------- the parts checked
\* The credentials of the three seeded accounts.
SeedLogins == {<<"admin@jobfinder.com", "Admin123">>,
               <<"recruiter@example.com", "Recruiter123">>,
               <<"jobseeker@example.com", "Seeker123">>}

\* The routes behind the role gates, called by the seeded accounts.
NextGate ==
  \/ seedData
  \/ \E c \in SeedLogins : Login(c[1], c[2])
  \/ \E h \in IssuedHeaders, g \in {"requireRecruiter", "requireJobSeeker", "requireAdmin"} :
       GatedRead(h, g)
  \/ \E h \in IssuedHeaders, ok \in BOOLEAN : CreateJob(h, ok)
  \/ \E h \in IssuedHeaders, u \in {2, 3} : AdminToggleStatus(h, toString(u))

SpecGate == Init /\ [][NextGate]_vars

\* A protected route called with every kind of header while time passes.
NextToken ==
  \/ seedData
  \/ Tick
  \/ Login("jobseeker@example.com", "Seeker123")
  \/ \E h \in Headers : GatedRead(h, "")

SpecToken == Init /\ [][NextToken]_vars

\* An account that is deactivated or deleted by the admin after it logged in.
NextRevoke ==
  \/ seedData
  \/ \E c \in SeedLogins : Login(c[1], c[2])
  \/ \E h \in IssuedHeaders : AdminToggleStatus(h, toString(3))
  \/ \E h \in IssuedHeaders : AdminDeleteUser(h, toString(3))
  \/ \E h \in IssuedHeaders : GatedRead(h, "")
  \/ \E h \in IssuedHeaders, ok \in BOOLEAN : CreateJob(h, ok)

SpecRevoke == Init /\ [][NextRevoke]_vars

\* Registration and login.
NextLogin ==
  \/ seedData
  \/ \E body \in RegisterBodies : Register(body)
  \/ \E e \in Emails, p \in Passwords : Login(e, p)

SpecLogin == Init /\ [][NextLogin]_vars

\* The write paths of role and isAdmin: seeding, registration, the profile
\* updates of the seeded job seeker, the admin's role change.
NextRoles ==
  \/ seedData
  \/ \E body \in {b \in RegisterBodies : b.password = "Abc123"} : Register(body)
  \/ \E c \in {<<"admin@jobfinder.com", "Admin123">>,
               <<"jobseeker@example.com", "Seeker123">>} : Login(c[1], c[2])
  \/ \E h \in IssuedHeaders, b \in UpdateBodies : PutUser(h, 3, b)
  \/ \E h \in IssuedHeaders, b \in UpdateBodies : PutUserFiltered(h, 3, b)
  \/ \E h \in IssuedHeaders, b \in UpdateBodies :
       ReqUser(h).id # 1 /\ PutProfileMe(h, b)
  \/ \E h \in IssuedHeaders, r \in Roles \cup {"bogus"} : AdminSetRole(h, toString(3), r)

SpecRoles == Init /\ [][NextRoles]_vars

\* The files a client sends: a good one for the purpose, and that file with
\* one field changed.
GoodFile(t) ==
  [fieldname |-> t, size |-> 1, originalname |-> "a.png",
   mimetype |-> IF t = "profilePicture" THEN "image/png" ELSE "application/pdf"]

UploadInputs ==
  [t \in Purposes |->
     {f \in FileInputs :
        Cardinality({k \in DOMAIN f : f[k] # GoodFile(t)[k]}) <= 1}]

\* Every file on storage and every request in flight is of purpose t: the
\* two purposes share no file name and no path field, and a run is about one.
OnePurpose(t) ==
  /\ \A x \in files : x[1] = t
  /\ \A u \in BagToSet(uploads) : u.type = t

\* The upload pipeline with the logins that give its clients their tokens.
NextUpload ==
  \/ seedData
  \/ TickMs
  \/ Login("jobseeker@example.com", "Seeker123")
  \/ \E h \in IssuedHeaders, t \in Purposes :
       \E f \in UploadInputs[t] :
         /\ BagCardinality(uploads) < MaxUploads
         /\ OnePurpose(t)
         /\ UploadStart(h, t, f)
  \/ UploadSteps

SpecUpload == Init /\ [][NextUpload]_vars

Spec == Init /\ [][Next]_vars

\* ------------------------------------------------------------------ claims
\* The header of the request that resp answers.
ReqHeader(r) == [kind |-> r.kind, tok |-> r.tok]

GatedOps == {"read", "createJob", "setRole", "toggleStatus", "deleteUser"}

ProtectedOps == GatedOps \cup {"putUser", "putUserFiltered", "putProfileMe", "upload"}

\* The gate on the route of the request that r answers.
GateOf(r) == IF r.op \in GatedOps THEN r.arg[1] ELSE ""

\* The identity u lacks what the gate g asks for.
LacksRequired(g, u) ==
  CASE g = "validateRecruiter" -> u.role # "recruiter"
    [] g = "requireRecruiter" -> u.role # "recruiter" /\ ~u.isAdmin
    [] g = "requireJobSeeker" -> u.role # "jobseeker" /\ ~u.isAdmin
    [] g = "requireAdmin" -> ~u.isAdmin
    [] g = "requireAdminWithLogging" -> ~u.isAdmin
    [] OTHER -> FALSE

\* C1: a request of an authenticated identity that lacks what the route's
\* role gate requires is answered 403, its handler does not run, and the
\* identities, jobs, files and tokens are left as they were.
C1_GateRejects ==
  [][LET g == GateOf(resp')
         a == auth(ReqHeader(resp'), now)
     IN (g \in GateNames /\ a.next /\ LacksRequired(g, a.user))
          => /\ resp'.status = 403
             /\ ~resp'.handled
             /\ UNCHANGED <<users, nextId, jobs, files, tokens>>]_vars

\* The seeded job seeker was refused by validateRecruiter on POST /jobs, and
\* the seeded recruiter by requireAdminWithLogging.
C1_Witness ==
  /\ resp.op \in {"createJob", "toggleStatus"}
  /\ resp.status = 403
  /\ auth(ReqHeader(resp), now).next
  /\ LacksRequired(GateOf(resp), auth(ReqHeader(resp), now).user)

\* The token a request carries in the x-auth-token header or in a
\* Bearer-prefixed Authorization header.
CarriedToken(r) == IF r.kind \in {"xauth", "bearer"} THEN r.tok ELSE NoTok

\* No token, or one that is malformed, wrongly signed, expired, or of another
\* issuer or audience.
TokenFails(t, clock) ==
  IF t = NoTok THEN TRUE
  ELSE IF ~t.wf THEN TRUE
  ELSE \/ t.sig # SECRET_KEY
       \/ t.exp <= clock
       \/ t.iss # "jobfinder-app"
       \/ t.aud # "jobfinder-users"

\* C2: a request to a protected route that carries no token in x-auth-token
\* or in a Bearer-prefixed Authorization header, or whose token fails
\* verification, is answered 401 with no identity attached and no next().
C2_Unauthenticated ==
  (resp.op \in ProtectedOps /\ TokenFails(CarriedToken(resp), now))
    => resp.status = 401 /\ ~resp.handled /\ resp.user = NoId

\* C3: a request with a correctly signed, unexpired token whose subject was
\* deleted or deactivated before the request is answered 401 and not handled.
C3_RevokedRejected ==
  [][LET t == CarriedToken(resp')
     IN (/\ resp'.op \in ProtectedOps
         /\ ~TokenFails(t, now)
         /\ (~users[t.sub].exists \/ ~users[t.sub].isActive))
          => resp'.status = 401 /\ ~resp'.handled]_vars

C5_RegisterThenLogin ==
  /\ (resp.op = "register" /\ resp.status = 201) =>
       LET r == loginUser(users, resp.arg.email, resp.arg.password, now)
       IN /\ r.status = 200
          /\ verifyToken(r.token, now).valid
          /\ verifyToken(r.token, now).sub = resp.user
          /\ verifyToken(r.token, now).role = users[resp.user].role
          /\ users[resp.user].role =
               (IF resp.arg.role = "absent" THEN "jobseeker" ELSE resp.arg.role)
  /\ (resp.op = "login" /\ resp.status = 200) =>
       /\ verifyToken(resp.tok, now).valid
       /\ verifyToken(resp.tok, now).sub = resp.user
       /\ verifyToken(resp.tok, now).role = users[resp.user].role

\* A registered identity logged in with the email as it was typed at
\* registration.
C5_Witness ==
  /\ resp.op = "login"
  /\ resp.status = 200
  /\ resp.user > SeedUsers
  /\ resp.arg[1] = "New@Example.com"
  /\ verifyToken(resp.tok, now).sub = resp.user

\* C6: every stored identity has role "admin" exactly when isAdmin is true.
C6_RoleAdminConsistent ==
  \A u \in UserIds : users[u].exists => (users[u].role = "admin" <=> users[u].isAdmin)

\* The requester of the request that r answers is no admin: anonymous, or an
\* identity whose token and stored document carry neither the admin role nor
\* the admin flag.
NonAdminRequest(r, coll) ==
  /\ r.op \in {"register", "login", "putUser", "putUserFiltered", "putProfileMe"}
  /\ LET a == auth(ReqHeader(r), now)
     IN a.next =>
          /\ ~a.user.isAdmin /\ a.user.role # "admin"
          /\ coll[a.user.id].exists
          /\ ~coll[a.user.id].isAdmin /\ coll[a.user.id].role # "admin"

\* C7: a request of a requester that is no admin changes no identity's role
\* and leaves no identity with role "admin" or isAdmin that had none before.
C7_RoleChangesAdminOnly ==
  [][NonAdminRequest(resp', users) =>
       \A u \in UserIds :
         users'[u].exists =>
           IF users[u].exists
             THEN /\ users'[u].role = users[u].role
                  /\ users'[u].isAdmin => users[u].isAdmin
             ELSE users'[u].role # "admin" /\ ~users'[u].isAdmin]_vars

\* C8: an upload request that multer refuses for the file's MIME type or for
\* its size adds no file to storage.
C8_RejectedLeavesNoFile ==
  [][(/\ resp'.op = "upload"
      /\ resp'.status = 400
      /\ resp'.arg.reason \in {"fileFilter", "LIMIT_FILE_SIZE"})
       => files' \subseteq files]_vars

\* A resume over 10 MiB was refused while the identity's resume was on
\* storage.
C8_Witness ==
  /\ resp.op = "upload"
  /\ resp.status = 400
  /\ resp.arg.reason = "LIMIT_FILE_SIZE"
  /\ resp.arg.type = "resume"
  /\ users[resp.user].resume \in files

\* C9: when an upload is answered 200, the identity's path for the purpose is
\* the new file and that file is on storage.
C9_SuccessfulUploadReferenced ==
  (resp.op = "upload" /\ resp.status = 200) =>
    /\ PathOf(users[resp.user], resp.arg.type) = resp.arg.file
    /\ resp.arg.file \in files

\* C10: when an upload fails after its file was written, under a name other
\* than the old file's, the new file is gone and the identity's path does not
\* point to a file that this request removed.
C10_FailedUploadCleansUp ==
  (/\ resp.op = "upload"
   /\ resp.status \in {400, 404, 500}
   /\ resp.arg.reason \in {"validateFile", "getUserById", "updateUser"}
   /\ resp.arg.old # resp.arg.file)
    => /\ resp.arg.file \notin files
       /\ ~(/\ resp.arg.removed
            /\ users[resp.user].exists
            /\ PathOf(users[resp.user], resp.arg.type) = resp.arg.old
            /\ resp.arg.old \notin files)

\* C11: when the deletion of the identity's previous file fails during an
\* upload, the upload goes on: it is answered 200, the new file is on storage
\* and the identity's path is the new file.
C11_OldDeleteFailureTolerated ==
  (/\ resp.op = "upload"
   /\ resp.handled
   /\ resp.arg.reason = "unlinkSync")
    => /\ resp.status = 200
       /\ resp.arg.file \in files
       /\ PathOf(users[resp.user], resp.arg.type) = resp.arg.file

\* The routes that write the profile picture and its path field, called by
\* the seeded job seeker: uploads of a good picture and deletions.
NextFiles ==
  \/ seedData
  \/ TickMs
  \/ Login("jobseeker@example.com", "Seeker123")
  \/ \E h \in IssuedHeaders :
       /\ BagCardinality(uploads) < MaxUploads
       /\ UploadStart(h, "profilePicture", GoodFile("profilePicture"))
  \/ UploadSteps
  \/ \E h \in IssuedHeaders, uok \in BOOLEAN, dok \in BOOLEAN :
       DeleteFile(h, "profilePicture", uok, dok)

SpecFiles == Init /\ [][NextFiles]_vars

NextSweep ==
  \/ seedData
  \/ TickMs
  \/ Login("jobseeker@example.com", "Seeker123")
  \/ \E h \in IssuedHeaders :
       /\ uploads = EmptyBag
       /\ sweep.pc = "idle"
       /\ UploadStart(h, "profilePicture", GoodFile("profilePicture"))
  \/ sweep.pc = "idle" /\ UploadSteps
  \/ \E f \in ExternalFiles : ~started /\ ExternalWrite(f)
  \/ SweepSteps

SpecSweep == Init /\ [][NextSweep]_vars

\* The step is the second half of a sweep run whose first half was the step
\* before, with no request in flight.
IsolatedSweepStep ==
  /\ resp.op = "sweep"
  /\ resp.arg.phase = "read"
  /\ resp'.op = "sweep"
  /\ resp'.arg.phase = "done"
  /\ uploads = EmptyBag

FairSweep == Init /\ [][NextSweep]_vars /\ WF_vars(SweepSteps)

\* C15: every sweep run that was started ends, and it ends with its report
\* of deleted, errored and skipped files, in which an error on listing a
\* directory is counted as the errors on single files are.
C15_SweepCompletesAndCounts ==
  /\ [](resp.op = "sweep" /\ resp.arg.phase # "read"
          => /\ resp.arg.phase = "done"
             /\ ~resp.arg.report.listed => resp.arg.report.errors > 0)
  /\ (sweep.pc = "listing") ~> (sweep.pc = "idle" /\ resp.op = "sweep")

\* The download of one's own resume: the seeded job seeker uploads resumes
\* one after the other, deletes the resume and asks for it.
NextDownload ==
  \/ seedData
  \/ TickMs
  \/ Login("jobseeker@example.com", "Seeker123")
  \/ \E h \in IssuedHeaders, uok \in BOOLEAN, dok \in BOOLEAN :
       DeleteFile(h, "resume", uok, dok)
  \/ \E h \in IssuedHeaders :
       uploads = EmptyBag /\ UploadStart(h, "resume", GoodFile("resume"))
  \/ UploadSteps
  \/ \E h \in IssuedHeaders : DownloadResume(h)

SpecDownload == Init /\ [][NextDownload]_vars

\* The resumes of applicants: the seeded accounts log in, the job seeker
\* uploads a resume and applies to the recruiter's job, and the accounts ask
\* for resumes.
NextApplicants ==
  \/ seedData
  \/ \E c \in SeedLogins : Login(c[1], c[2])
  \/ \E h \in IssuedHeaders :
       /\ uploads = EmptyBag
       /\ ReqUser(h).id = 3
       /\ users[3].resume = NoFile
       /\ UploadStart(h, "resume", GoodFile("resume"))
  \/ UploadSteps
  \/ \E h \in IssuedHeaders : applying = EmptyBag /\ ApplyJob(h, 1)
  \/ ApplySteps
  \/ \E h \in IssuedHeaders : DownloadResume(h)
  \/ \E h \in IssuedHeaders : DownloadApplicantResume(h, 1, 3)

SpecApplicants == Init /\ [][NextApplicants]_vars

\* C16: a request of an identity B for the resume of an identity A is
\* answered 403 when B is neither A nor an admin, and the request of an admin
\* for the resume of an A whose resume is on storage is answered 200 with the
\* attachment headers.
C16_ResumeOwnerOrAdminOnly ==
  (/\ resp.op \in {"download", "downloadApplicant"}
   /\ resp.handled
   /\ users[resp.user].exists)
    => LET B == users[resp.user]
           A == users[resp.arg.owner]
           isAdmin == B.isAdmin \/ B.role = "admin"
       IN /\ (resp.user # resp.arg.owner /\ ~isAdmin) => resp.status = 403
          /\ (isAdmin /\ A.exists /\ A.resume # NoFile /\ A.resume \in files)
               => resp.status = 200 /\ resp.arg.attachment

\* A recruiter that is no admin was sent the resume of another identity.
ResumeServedToRecruiter ==
  /\ resp.op = "downloadApplicant"
  /\ resp.status = 200
  /\ resp.user # resp.arg.owner
  /\ ~users[resp.user].isAdmin

\* C17: GET /users/profile/resume/download answers 404 when the identity's
\* resume is unset or names a file that is not on storage, answers 200 with
\* the attachment headers otherwise, and changes neither the identities nor
\* the storage.
C17_DownloadNotFoundOrAttachment ==
  [][(resp'.op = "download" /\ resp'.handled /\ users[resp'.user].exists)
       => /\ IF users[resp'.user].resume = NoFile
                  \/ users[resp'.user].resume \notin files
               THEN resp'.status = 404 /\ ~resp'.arg.attachment
               ELSE resp'.status = 200 /\ resp'.arg.attachment
          /\ UNCHANGED <<users, files, jobs, uploads>>]_vars

\* A download was answered 404 for a resume path that names a file which is
\* no longer on storage.
C17_Witness ==
  /\ resp.op = "download"
  /\ resp.status = 404
  /\ users[resp.user].resume # NoFile
  /\ users[resp.user].resume \notin files

\* Two uploads of a picture by the seeded job seeker in flight together: a
\* request starts when none is in flight, or beside one that has not yet
\* been in flight with another.
NextRace ==
  \/ seedData
  \/ TickMs
  \/ Login("jobseeker@example.com", "Seeker123")
  \/ \E h \in IssuedHeaders :
       /\ \/ uploads = EmptyBag
          \/ BagCardinality(uploads) = 1 /\ \A u \in InFlight : ~u.raced
       /\ UploadStart(h, "profilePicture", GoodFile("profilePicture"))
  \/ UploadSteps

SpecRace == Init /\ [][NextRace]_vars

\* The request answered is the second of two uploads for the same path that
\* were in flight together and were both answered 200.
BothUploadsDone ==
  /\ resp.op = "upload"
  /\ resp.status = 200
  /\ resp.arg.met # NoFile

\* C18: when two uploads of one identity for one purpose that were in flight
\* together have both been answered 200, each for a file of its own, the path
\* is the file of the one that updated it last, and the file of the other is
\* on storage and unreferenced.
C18_LoserOrphaned ==
  (BothUploadsDone /\ resp.arg.met # resp.arg.file) =>
    /\ PathOf(users[resp.user], resp.arg.type) = resp.arg.file
    /\ resp.arg.met \in files
    /\ resp.arg.met # PathOf(users[resp.user], resp.arg.type)

\* C18 as the code has it: the path is the file of the request that updated
\* it last; the file of the other is on storage, and unreferenced unless both
\* requests were given the same file name, if the last request read the
\* identity before the other's update, and was deleted by the last request
\* as the old file if it read the identity after it.
C18_LastWriteWins ==
  BothUploadsDone =>
    /\ PathOf(users[resp.user], resp.arg.type) = resp.arg.file
    /\ IF resp.arg.old = resp.arg.met
         THEN resp.arg.met \notin files
         ELSE resp.arg.met \in files

\* Two uploads in flight together were both answered 200; the last one had
\* read the identity before the other's update, and the other's file is left
\* on storage beside the file the path names.
C18_Witness ==
  /\ BothUploadsDone
  /\ resp.arg.raced
  /\ resp.arg.met # resp.arg.file
  /\ resp.arg.old # resp.arg.met
  /\ resp.arg.met \in files
  /\ resp.arg.file \in files

\* C19: nothing keeps the sweep from the file of an upload in flight.  A run
\* that lists both directories and deletes without error removes the written
\* file of every upload in flight whose name was not among the path fields
\* when the run read them, and an upload whose file is gone still sets the
\* path to it and is answered 200, which leaves the path naming a file that
\* does not exist.
C19_SweepTakesInFlightFile ==
  [][/\ (/\ resp'.op = "sweep"
         /\ resp'.arg.phase = "done"
         /\ resp'.arg.report.listed
         /\ resp'.arg.report.errors = 0)
          => \A u \in InFlight :
               (u.file \in files /\ u.file \notin sweep.userFiles)
                 => u.file \notin files'
     /\ (/\ resp'.op = "upload"
         /\ resp'.status = 200
         /\ resp'.arg.file \notin files)
          => /\ PathOf(users'[resp'.user], resp'.arg.type) = resp'.arg.file
             /\ resp'.arg.file \notin files']_vars

\* An upload was answered 200 after a sweep run had deleted its file: the
\* path names the new file, which is not the old one, and it is not on
\* storage.
C19_Witness ==
  /\ resp.op = "upload"
  /\ resp.status = 200
  /\ resp.arg.file # resp.arg.old
  /\ PathOf(users[resp.user], resp.arg.type) = resp.arg.file
  /\ resp.arg.file \notin files

\* The deletion of an account by the admin: the seeded accounts log in, the
\* job seeker uploads a resume and applies to jobs, and the admin deletes the
\* recruiter or the job seeker.
NextDeletion ==
  \/ seedData
  \/ \E c \in SeedLogins : Login(c[1], c[2])
  \/ \E h \in IssuedHeaders :
       /\ uploads = EmptyBag
       /\ ReqUser(h).id = 3
       /\ UploadStart(h, "resume", GoodFile("resume"))
  \/ UploadSteps
  \/ \E h \in IssuedHeaders, j \in {1, 3} : applying = EmptyBag /\ ApplyJob(h, j)
  \/ ApplySteps
  \/ \E h \in IssuedHeaders, u \in {2, 3} : AdminDeleteUser(h, toString(u))

SpecDeletion == Init /\ [][NextDeletion]_vars

\* C20: when DELETE /admin/users/:id is answered 200 for the identity U, U
\* no longer exists, no job lists U among its applicants, no job is posted by
\* U if U was a recruiter, and the files that U's profilePicture and resume
\* named are no longer on storage.
C20_DeletionCascades ==
  [][(resp'.op = "deleteUser" /\ resp'.status = 200)
       => LET U == resp'.arg[2]
          IN /\ ~users'[U].exists
             /\ \A j \in JobIds :
                  jobs'[j].exists =>
                    /\ \A i \in DOMAIN jobs'[j].applicants : jobs'[j].applicants[i] # U
                    /\ users[U].role = "recruiter" => jobs'[j].postedBy # U
             /\ users[U].profilePicture \notin files'
             /\ users[U].resume \notin files']_vars

\* The part of C20 about the identity and the jobs.
DeletionCascadesToJobs ==
  [][(resp'.op = "deleteUser" /\ resp'.status = 200)
       => LET U == resp'.arg[2]
          IN /\ ~users'[U].exists
             /\ \A j \in JobIds :
                  jobs'[j].exists =>
                    /\ \A i \in DOMAIN jobs'[j].applicants : jobs'[j].applicants[i] # U
                    /\ users[U].role = "recruiter" => jobs'[j].postedBy # U]_vars

\* Applications to the jobs: the seeded job seeker and the admin apply, with
\* up to MaxApplies requests in flight together.
NextApply ==
  \/ seedData
  \/ \E c \in {<<"admin@jobfinder.com", "Admin123">>,
               <<"jobseeker@example.com", "Seeker123">>} : Login(c[1], c[2])
  \/ \E h \in IssuedHeaders, j \in {1, 2} :
       BagCardinality(applying) < MaxApplies /\ ApplyJob(h, j)
  \/ ApplySteps

SpecApply == Init /\ [][NextApply]_vars

\* C21: no job's applicants list holds an identity twice, also when two
\* apply requests of one identity for one job are in flight together.
C21_ApplicantsUnique ==
  \A j \in JobIds :
    jobs[j].exists =>
      \A i, k \in DOMAIN jobs[j].applicants :
        jobs[j].applicants[i] = jobs[j].applicants[k] => i = k

\* The part of C21 about an apply that finds the identity on the list: it
\* is answered 400 and changes no job.
SecondApplyRejected ==
  [][(/\ resp'.op = "apply"
      /\ resp'.handled
      /\ resp'.user \in UserIds
      /\ applying' = applying
      /\ jobs[resp'.arg[1]].exists
      /\ includes(jobs[resp'.arg[1]].applicants, resp'.user))
       => resp'.status \in {400, 403} /\ jobs' = jobs]_vars

\* Logins, logouts and calls of a protected route while time passes.
NextLogout ==
  \/ seedData
  \/ Tick
  \/ \E c \in {<<"recruiter@example.com", "Recruiter123">>,
               <<"jobseeker@example.com", "Seeker123">>} : Login(c[1], c[2])
  \/ \E h \in IssuedHeaders : Logout(h)
  \/ \E h \in IssuedHeaders : GatedRead(h, "")

SpecLogout == Init /\ [][NextLogout]_vars

FilterNames == {"a.png", "a.PNG", "a.pdf", "a.exe"}

\* The extensions the specification allows for the purpose.
AllowedExtensions(type) ==
  IF type = "profilePicture" THEN {".jpg", ".jpeg", ".png", ".gif", ".webp"}
  ELSE {".pdf", ".doc", ".docx"}

\* Uploads of files of the right MIME type and size under every name, one
\* after the other, by the seeded job seeker.
NextFilter ==
  \/ seedData
  \/ Login("jobseeker@example.com", "Seeker123")
  \/ \E h \in IssuedHeaders, t \in Purposes, n \in FilterNames :
       /\ uploads = EmptyBag
       /\ UploadStart(h, t, [GoodFile(t) EXCEPT !.originalname = n])
  \/ UploadSteps

SpecFilter == Init /\ [][NextFilter]_vars

\* C23: an upload is accepted only if the extension of the original file
\* name, compared without regard to case, is one of the extensions allowed
\* for the upload's own purpose; a file whose extension is allowed for the
\* other purpose only is refused for its file name and is not kept.
C23_ExtensionOfOwnPurpose ==
  /\ (resp.op = "upload" /\ resp.status = 200)
       => extLower(resp.arg.file[4]) \in AllowedExtensions(resp.arg.type)
  /\ \A u \in InFlight :
       extLower(u.file[4]) \notin AllowedExtensions(u.type)
         => "Invalid filename" \in u.errors

\* The part of C23 that the code keeps: an accepted file bears, in either
\* case, an extension that is allowed for one of the two purposes.
AcceptedHasKnownExtension ==
  (resp.op = "upload" /\ resp.status = 200)
    => extLower(resp.arg.file[4]) \in
         AllowedExtensions("profilePicture") \cup AllowedExtensions("resume")

\* A picture named in upper case was accepted.
UpperCaseAccepted ==
  /\ resp.op = "upload"
  /\ resp.status = 200
  /\ resp.arg.file[4] = ".PNG"

\* C24: every accepted upload is written under a name of its own: the step
\* in which a request's file is written adds a file to storage, so that it
\* replaces the file of no other upload, also for two uploads of one
\* identity, purpose and extension in the same millisecond.
C24_NamesCollisionFree ==
  [][BagCardinality(uploads') > BagCardinality(uploads) => files' # files]_vars

\* The admin routes called by the admin for the own account and for the job
\* seeker's, with the id written as the token has it or in upper case.
NextSelf ==
  \/ seedData
  \/ Login("admin@jobfinder.com", "Admin123")
  \/ \E h \in IssuedHeaders, u \in {1, 3}, up \in BOOLEAN, r \in Roles :
       AdminSetRole(h, [id |-> u, upper |-> up], r)
  \/ \E h \in IssuedHeaders, u \in {1, 3}, up \in BOOLEAN :
       AdminToggleStatus(h, [id |-> u, upper |-> up])
  \/ \E h \in IssuedHeaders, u \in {1, 3}, up \in BOOLEAN :
       AdminDeleteUser(h, [id |-> u, upper |-> up])

SpecSelf == Init /\ [][NextSelf]_vars

\* The request answered is one of an admin to DELETE /admin/users/:id, PUT
\* /admin/users/:id/status or, with a role other than admin, PUT
\* /admin/users/:id/role, and :id is the id of that admin.
SelfTargeted(r) ==
  /\ r.op \in {"deleteUser", "toggleStatus", "setRole"}
  /\ r.handled
  /\ r.arg[2] = r.user
  /\ r.op = "setRole" => r.arg[3] # "admin"

\* C25: a request of an admin to delete, deactivate or demote the own
\* account through the admin routes is answered 400 and leaves the admin's
\* identity record as it was.
C25_AdminSelfProtected ==
  [][SelfTargeted(resp') =>
       /\ resp'.status = 400
       /\ users'[resp'.user] = users[resp'.user]]_vars

\* The part of C25 for an id that is written as the token has it.
SelfProtectedAsWritten ==
  [][(SelfTargeted(resp') /\ ~resp'.arg[Len(resp'.arg)]) =>
       /\ resp'.status = 400
       /\ users'[resp'.user] = users[resp'.user]]_vars

\* The organisation of uploads: files appear in uploads and in
\* uploads/profiles, and fixMisplacedFiles runs, with and without faults.
NextOrganize ==
  \/ seedData
  \/ \E f \in RootFiles \cup {<<"profilePicture", "stray.png">>} : ExternalWrite(f)
  \/ \E ok \in BOOLEAN, failed \in SUBSET {<<"uploads", "photo.PNG">>,
                                           <<"uploads", "cv.pdf">>} :
       FixMisplacedFiles(ok, failed)

SpecOrganize == Init /\ [][NextOrganize]_vars

\* Where the specification puts a file of uploads: profiles for an image
\* extension, resumes for a document extension, in either case of letters.
ExpectedPath(f) ==
  LET n == f[2] IN
  IF n \in {"photo.PNG", "stray.png", "._photo.png"} THEN <<"profilePicture", n>>
  ELSE IF n \in {"cv.pdf", "scans.pdf"} THEN <<"resume", n>>
  ELSE <<>>

\* The files of uploads that a run, for which the listing works, has to
\* move: regular files of an image or document extension whose name is free
\* at the destination and whose rename does not fail.
Misplaced(fs, r) ==
  {f \in fs : /\ f \in RootFiles
              /\ r.arg.listed
              /\ f # <<"uploads", "scans.pdf">>
              /\ ExpectedPath(f) # <<>>
              /\ ExpectedPath(f) \notin fs
              /\ f \notin r.arg.failed}

SystemEntry(f) == f[2] \in {".gitkeep", "._photo.png", "desktop.ini", "Thumbs.db"}

NextJobs ==
  \/ seedData
  \/ \E c \in SeedLogins : Login(c[1], c[2])
  \/ \E h \in IssuedHeaders, j \in {1, 3, SeedJobs + 1}, b \in JobBodies :
       UpdateJob(h, j, b)
  \/ \E h \in IssuedHeaders, j \in {1, 3, SeedJobs + 1} : DeleteJob(h, j)

SpecJobs == Init /\ [][NextJobs]_vars

\* The request answered has come to updateJob or deleteJob: it was admitted
\* and, for an update, its body was valid.
ReachedJobAccess(r) ==
  /\ r.op \in {"updateJob", "deleteJob"}
  /\ r.handled
  /\ r.op = "updateJob" => r.arg[2].ok

C28_ReferencedFileExists ==
  uploads = EmptyBag =>
    \A u \in UserIds :
      users[u].exists =>
        \A t \in Purposes :
          PathOf(users[u], t) # NoFile => PathOf(users[u], t) \in files

\* The application relation: the seeded accounts log in, the job seeker and
\* the admin apply to jobs one request at a time, the poster or the admin
\* deletes jobs and the admin deletes the recruiter or the job seeker.
NextRelation ==
  \/ seedData
  \/ \E c \in SeedLogins : Login(c[1], c[2])
  \/ \E h \in IssuedHeaders, j \in {1, 2} : applying = EmptyBag /\ ApplyJob(h, j)
  \/ ApplySteps
  \/ \E h \in IssuedHeaders, j \in {1, 2} : DeleteJob(h, j)
  \/ \E h \in IssuedHeaders, j \in {1, 2} : AdminDeleteJob(h, j)
  \/ \E h \in IssuedHeaders, u \in {2, 3} : AdminDeleteUser(h, toString(u))

SpecRelation == Init /\ [][NextRelation]_vars

\* The identity U is on the applicants list of the existing job J.
InApplicants(U, J) == jobs[J].exists /\ includes(jobs[J].applicants, U)

\* The job J is on the appliedJobs list of the existing identity U.
InAppliedJobs(U, J) == users[U].exists /\ includes(users[U].appliedJobs, J)

\* C29: when no apply request is in flight, U is among the applicants of J
\* exactly when J is among the appliedJobs of U, and neither list names a
\* job or an identity that no longer exists.
C29_RelationAgrees ==
  applying = EmptyBag =>
    \A U \in UserIds, J \in JobIds :
      /\ InApplicants(U, J) <=> InAppliedJobs(U, J)
      /\ InApplicants(U, J) => users[U].exists
      /\ InAppliedJobs(U, J) => jobs[J].exists

\* The part of C29 about the deletions by the admin: the job that
\* DELETE /admin/jobs/:id deleted is on no appliedJobs list, and the identity
\* that DELETE /admin/users/:id deleted is on no applicants list.
AdminDeletionsPull ==
  /\ (resp.op = "adminDeleteJob" /\ resp.status = 200)
       => \A U \in UserIds : ~InAppliedJobs(U, resp.arg[2])
  /\ (resp.op = "deleteUser" /\ resp.status = 200)
       => \A J \in JobIds : ~InApplicants(resp.arg[2], J)

\* The admin routes on users, called by the seeded admin and by the job
\* seeker, whom the admin may promote: role changes, status toggles, single
\* and bulk deletions that target the two accounts, with the ids written as
\* the tokens carry them.
NextAdmins ==
  \/ seedData
  \/ \E c \in {<<"admin@jobfinder.com", "Admin123">>,
               <<"jobseeker@example.com", "Seeker123">>} : Login(c[1], c[2])
  \/ \E h \in IssuedHeaders, u \in {1, 3}, r \in {"admin", "jobseeker"} :
       AdminSetRole(h, toString(u), r)
  \/ \E h \in IssuedHeaders, u \in {1, 3} : AdminToggleStatus(h, toString(u))
  \/ \E h \in IssuedHeaders, u \in {1, 3} : AdminDeleteUser(h, toString(u))
  \/ \E h \in IssuedHeaders, ids \in SUBSET {toString(1), toString(3)} :
       AdminBulkDeleteUsers(h, ids)

SpecAdmins == Init /\ [][NextAdmins]_vars

\* The identities that are admins and active.
ActiveAdmins == {u \in UserIds : users[u].exists /\ users[u].isAdmin /\ users[u].isActive}

\* C30: once the accounts are seeded, whatever role changes, status toggles
\* and deletions the admins request, of each other too, at least one
\* identity with isAdmin and isActive exists.
C30_ActiveAdminRemains == started => ActiveAdmins # {}

\* The part of C30 about the bulk deletion: it deletes no admin.
BulkDeleteKeepsAdmins ==
  [][resp'.op = "bulkDeleteUsers" => ActiveAdmins' = ActiveAdmins]_vars

====
